---- MODULE Spec2Model ----
(***************************************************************************)
(* Model of the Videohub panel server (src/src/server/videohub.ts) and of  *)
(* the configure-block generator (src/src/server/configure.ts).            *)
(*                                                                         *)
(* JavaScript strings are sequences of one-character strings.  JavaScript  *)
(* values that may be undefined, NaN, a number or a string are records     *)
(* [k, n, s] (see Undef, NaN, Num, Frac, Str).  Every socket is modelled   *)
(* by its state and by the set of listeners attached to it; an action is   *)
(* one callback of the event loop together with the promise continuations  *)
(* (microtasks) that run before the next callback.                         *)
(***************************************************************************)
EXTENDS Integers, Sequences, FiniteSets, TLC

(***************************************************************************)
(* Bounds of the model.                                                    *)
(***************************************************************************)
MaxReads == 2
MaxConfigureReads == 2
MaxCalls == 1
MaxTimeouts == 1
MaxColumns == 3
MaxRows == 2

(***************************************************************************)
(* Strings.                                                                *)
(***************************************************************************)
NL == "\n"
SP == " "

sPING == <<"P","I","N","G",":">>
sROUTING == <<"V","I","D","E","O"," ","O","U","T","P","U","T"," ","R","O","U","T","I","N","G",":">>
sSMART == <<"S","M","A","R","T"," ","D","E","V","I","C","E",":">>
sACK == <<"A","C","K","\n","\n">>
sModel == <<"M","o","d","e","l">>
sLabel == <<"L","a","b","e","l">>
sUniqueID == <<"U","n","i","q","u","e"," ","I","D">>
sInputCount == <<"I","n","p","u","t"," ","c","o","u","n","t">>
sInputsAcross == <<"I","n","p","u","t","s"," ","a","c","r","o","s","s">>
sInputsDown == <<"I","n","p","u","t","s"," ","d","o","w","n">>

\* String.prototype.indexOf for a one-character needle: 0-based, -1 if absent.
IndexOfChar(s, ch) ==
    IF \E i \in 1..Len(s) : s[i] = ch
    THEN (CHOOSE i \in 1..Len(s) : s[i] = ch /\ \A j \in 1..(i-1) : s[j] # ch) - 1
    ELSE -1

\* dataBuffer.indexOf('\n\n'): 0-based, -1 if absent.
IndexOfNLNL(s) ==
    IF \E i \in 1..(Len(s)-1) : s[i] = NL /\ s[i+1] = NL
    THEN (CHOOSE i \in 1..(Len(s)-1) :
             /\ s[i] = NL /\ s[i+1] = NL
             /\ \A j \in 1..(i-1) : ~(s[j] = NL /\ s[j+1] = NL)) - 1
    ELSE -1

\* String.prototype.slice(a, b) with JavaScript's clamping and negative indices.
Clamp(i, n) == IF i < 0 THEN (IF n + i < 0 THEN 0 ELSE n + i) ELSE (IF i > n THEN n ELSE i)
Slice(s, a, b) == SubSeq(s, Clamp(a, Len(s)) + 1, Clamp(b, Len(s)))
SliceFrom(s, a) == Slice(s, a, Len(s))

\* String.prototype.split(ch) for a one-character separator.
RECURSIVE Split(_, _)
Split(s, ch) ==
    LET i == IndexOfChar(s, ch)
    IN  IF i = -1 THEN <<s>>
        ELSE <<Slice(s, 0, i)>> \o Split(SliceFrom(s, i + 1), ch)

\* String.prototype.trim, for the white space of the model's alphabet.
RECURSIVE TrimLeft(_)
TrimLeft(s) == IF s # <<>> /\ s[1] \in {SP, NL} THEN TrimLeft(Tail(s)) ELSE s
RECURSIVE TrimRight(_)
TrimRight(s) ==
    IF s # <<>> /\ s[Len(s)] \in {SP, NL} THEN TrimRight(SubSeq(s, 1, Len(s) - 1)) ELSE s
Trim(s) == TrimRight(TrimLeft(s))

\* Array.prototype.join: the lines of a block joined by line terminators.
RECURSIVE Join(_)
Join(ls) ==
    IF ls = <<>> THEN <<>>
    ELSE IF Len(ls) = 1 THEN ls[1]
    ELSE ls[1] \o <<NL>> \o Join(Tail(ls))

(***************************************************************************)
(* JavaScript values.                                                      *)
(***************************************************************************)
Undef == [k |-> "undef", n |-> 0, s |-> <<>>]
NaN == [k |-> "nan", n |-> 0, s |-> <<>>]
Num(i) == [k |-> "num", n |-> i, s |-> <<>>]
\* a finite number that is not an integer; n is its floor
Frac(i) == [k |-> "frac", n |-> i, s |-> <<>>]
Str(x) == [k |-> "str", n |-> 0, s |-> x]

isNaN(v) == v.k \in {"nan", "undef"}

Digits == {"0","1","2","3","4","5","6","7","8","9"}
DigitVal(ch) ==
    CASE ch = "0" -> 0 [] ch = "1" -> 1 [] ch = "2" -> 2 [] ch = "3" -> 3
      [] ch = "4" -> 4 [] ch = "5" -> 5 [] ch = "6" -> 6 [] ch = "7" -> 7
      [] ch = "8" -> 8 [] ch = "9" -> 9

IsDigits(s) == \A i \in 1..Len(s) : s[i] \in Digits
RECURSIVE DecVal(_)
DecVal(s) == IF s = <<>> THEN 0 ELSE 10 * DecVal(SubSeq(s, 1, Len(s) - 1)) + DigitVal(s[Len(s)])

\* Number(string) on unsigned input: "" is 0, decimal digits are an integer,
\* digits '.' digits is a finite number, anything else is NaN.
UnsignedNumber(t) ==
    LET dot == IndexOfChar(t, ".")
        ip == Slice(t, 0, dot)
        fp == SliceFrom(t, dot + 1)
    IN  IF t = <<>> THEN Num(0)
        ELSE IF IsDigits(t) THEN Num(DecVal(t))
        ELSE IF dot # -1 /\ IsDigits(ip) /\ IsDigits(fp) /\ Len(t) > 1
             THEN (IF DecVal(fp) = 0 THEN Num(DecVal(ip)) ELSE Frac(DecVal(ip)))
        ELSE NaN

\* Number(x) for x a string or undefined (a missing array element).
Number(v) ==
    IF v.k # "str" THEN NaN
    ELSE LET t == Trim(v.s)
         IN  IF t # <<>> /\ t[1] = "-" /\ Len(t) > 1 /\ Tail(t)[1] # "-"
             THEN LET u == UnsignedNumber(Tail(t))
                  IN  IF u.k = "num" THEN Num(0 - u.n)
                      ELSE IF u.k = "frac" THEN Frac(0 - u.n - 1)
                      ELSE NaN
             ELSE IF t # <<>> /\ t[1] = "-" THEN NaN
             ELSE UnsignedNumber(t)

\* parts[i] of an array (0-based): undefined past the end.
At(parts, i) == IF i + 1 <= Len(parts) THEN Str(parts[i + 1]) ELSE Undef

(***************************************************************************)
(* Lines of the blocks the server writes to a configure connection.  A     *)
(* line is a record [t, i, v]: a header has its text in t; a BUTTON KIND   *)
(* line "i Source" has t = "Source"; a mapping line "i v" has t = "map";   *)
(* the blank line ending a section has t = "".                             *)
(***************************************************************************)
Header(name) == [t |-> name, i |-> 0, v |-> 0]
KindLine(i, kind) == [t |-> kind, i |-> i, v |-> 0]
MapLine(i, v) == [t |-> "map", i |-> i, v |-> v]
SettingLine(name, v) == [t |-> name, i |-> 0, v |-> v]
Blank == [t |-> "", i |-> 0, v |-> 0]

\* the (x, y) of the loops  for y < buttonRows  for x < buttonColumns, in
\* iteration order; a bound that is undefined or NaN runs no iteration
LoopCount(v) == IF v.k = "num" /\ v.n > 0 THEN v.n ELSE 0
Buttons(buttonColumns, buttonRows) ==
    [k \in 1..(LoopCount(buttonRows) * LoopCount(buttonColumns)) |->
        [x |-> (k - 1) % LoopCount(buttonColumns), y |-> (k - 1) \div LoopCount(buttonColumns)]]

\* a generator that puts the destinations in the leftmost columns
generateConfigure_LeftDestinations(buttonColumns, buttonRows, destinationCount) ==
    LET destinationCols == destinationCount \div 2
        bs == Buttons(buttonColumns, buttonRows)
        idx(b) == b.x + b.y * buttonColumns.n
        kind == [k \in 1..Len(bs) |->
                    KindLine(idx(bs[k]),
                             IF bs[k].x < destinationCols THEN "Destination" ELSE "Source")]
        off == [k \in 1..Len(bs) |-> MapLine(idx(bs[k]), -1)]
    IN  <<Header("BUTTON KIND:")>> \o kind \o <<Blank>>
        \o <<Header("BUTTON SDI_A:"), MapLine(-1, 0)>> \o off \o <<Blank>>
        \o <<Header("BUTTON SDI_B:"), MapLine(-1, -1)>> \o off \o <<Blank>>
        \o <<Header("BUTTON REMOTE:"), MapLine(-1, -1)>> \o off \o <<Blank>>

generateConfigure(buttonColumns, buttonRows, destinationCount) ==
    LET destinationCols == destinationCount \div 2
        destinationFromCol == buttonColumns.n - destinationCols
        bs == Buttons(buttonColumns, buttonRows)
        idx(b) == b.x + b.y * buttonColumns.n
        kind == [k \in 1..Len(bs) |->
                    KindLine(idx(bs[k]),
                             IF bs[k].x >= destinationFromCol THEN "Destination" ELSE "Source")]
        sdiA == [k \in 1..Len(bs) |->
                    IF bs[k].x >= destinationFromCol
                    THEN MapLine(idx(bs[k]), (bs[k].x - destinationFromCol) * buttonRows.n + bs[k].y)
                    ELSE MapLine(idx(bs[k]), idx(bs[k]))]
        off == [k \in 1..Len(bs) |-> MapLine(idx(bs[k]), -1)]
    IN  <<Header("BUTTON KIND:")>> \o kind \o <<Blank>>
        \o <<Header("BUTTON SDI_A:"), MapLine(-1, 0)>> \o sdiA \o <<Blank>>
        \o <<Header("BUTTON SDI_B:"), MapLine(-1, -1)>> \o off \o <<Blank>>
        \o <<Header("BUTTON REMOTE:"), MapLine(-1, -1)>> \o off \o <<Blank>>

\* the SETTINGS payload of setBacklight
SettingsPayload(backlight) ==
    <<Header("SETTINGS:"), SettingLine("Backlight:", backlight),
      SettingLine("Destination backlight:", backlight), Blank>>

(***************************************************************************)
(* Device Info Parser: the loop over deviceInfo[1..] in #connectConfigure. *)
(***************************************************************************)
EmptyInfo ==
    [model |-> Undef, name |-> Undef, id |-> Undef,
     buttonsTotal |-> Undef, buttonsColumns |-> Undef, buttonsRows |-> Undef]

ParseLine(processedInfo, element) ==
    LET splitIndex == IndexOfChar(element, ":")
        key == Slice(element, 0, splitIndex)
        value == Trim(SliceFrom(element, splitIndex + 1))
    IN  IF key = sModel THEN [processedInfo EXCEPT !.model = Str(value)]
        ELSE IF key = sLabel THEN [processedInfo EXCEPT !.name = Str(value)]
        ELSE IF key = sUniqueID THEN [processedInfo EXCEPT !.id = Str(value)]
        ELSE IF key = sInputCount THEN [processedInfo EXCEPT !.buttonsTotal = Number(Str(value))]
        ELSE IF key = sInputsAcross THEN [processedInfo EXCEPT !.buttonsColumns = Number(Str(value))]
        ELSE IF key = sInputsDown THEN [processedInfo EXCEPT !.buttonsRows = Number(Str(value))]
        ELSE processedInfo

RECURSIVE ParseFrom(_, _, _)
ParseFrom(processedInfo, deviceInfo, i) ==
    IF i > Len(deviceInfo) THEN processedInfo
    ELSE ParseFrom(ParseLine(processedInfo, deviceInfo[i]), deviceInfo, i + 1)

ParseDeviceInfo(deviceInfo) == ParseFrom(EmptyInfo, deviceInfo, 2)

\* JavaScript truthiness of processedInfo.id
Truthy(v) == v.k = "str" /\ v.s # <<>>

(***************************************************************************)
(* Frame decoding as both 'data' handlers do it: append the read to the    *)
(* buffer and take at most ONE block off its front.                        *)
(***************************************************************************)
PopBlock(dataBuffer, data) ==
    LET buf == dataBuffer \o data
        splitIndex == IndexOfNLNL(buf)
    IN  IF splitIndex # -1
        THEN [found |-> TRUE,
              toProcess |-> Split(Slice(buf, 0, splitIndex), NL),
              rest |-> SliceFrom(buf, splitIndex + 2)]
        ELSE [found |-> FALSE, toProcess |-> <<>>, rest |-> buf]

\* every complete block of a stream, decoded in one piece (reference decoder)
RECURSIVE Blocks(_)
Blocks(stream) ==
    LET d == PopBlock(<<>>, stream)
    IN  IF d.found THEN <<d.toProcess>> \o Blocks(d.rest) ELSE <<>>

(***************************************************************************)
(* Entries of a connection's log: what is written to its two sockets and   *)
(* the events the server emits about it, in program order.                 *)
(***************************************************************************)
Debug(m) == [t |-> "debug", m |-> m]
DebugCommand(id, lines) == [t |-> "command", id |-> id, lines |-> lines]
ErrorEvent(m) == [t |-> "error", m |-> m]
Write(data) == [t |-> "write", data |-> data]
ConfigureWrite(payload) == [t |-> "cwrite", payload |-> payload]
ConnectEvent(id, info, addr) == [t |-> "connect", id |-> id, info |-> info, addr |-> addr]
DisconnectEvent(id) == [t |-> "disconnect", id |-> id]
PressEvent(id, destination, value) ==
    [t |-> "press", id |-> id, destination |-> destination, value |-> value]

\* generatePrelude() of ./prelude.js: an opaque banner
generatePrelude == <<"P","R","E","L","U","D","E","\n","\n">>

(***************************************************************************)
(* Command Dispatcher: #handleCommands.                                    *)
(***************************************************************************)
RECURSIVE PressesFrom(_, _, _)
PressesFrom(remoteAddress, lines, i) ==
    IF i > Len(lines) THEN <<>>
    ELSE LET parts == Split(lines[i], SP)
             destination == Number(At(parts, 0))
             value == Number(At(parts, 1))
         IN  (IF ~isNaN(destination) /\ ~isNaN(value)
              THEN <<PressEvent(remoteAddress, destination, value)>>
              ELSE <<>>)
             \o PressesFrom(remoteAddress, lines, i + 1)

\* a dispatcher that acknowledges a block after interpreting it
handleCommands_AckLast(remoteAddress, lines) ==
    <<DebugCommand(remoteAddress, lines)>>
    \o (IF Len(lines) > 1 /\ lines[1] = sROUTING THEN PressesFrom(remoteAddress, lines, 2)
        ELSE <<>>)
    \o <<Write(sACK)>>

handleCommands(remoteAddress, lines) ==
    <<DebugCommand(remoteAddress, lines), Write(sACK)>>
    \o (IF Len(lines) = 1 /\ lines[1] = sPING THEN <<>>
        ELSE IF Len(lines) > 1 /\ lines[1] = sROUTING THEN PressesFrom(remoteAddress, lines, 2)
        ELSE <<>>)

(***************************************************************************)
(* Inputs of the model.                                                    *)
(***************************************************************************)
Addr1 == <<"h","1">>
Addr2 == <<"h","2">>
Uid1 == <<"U","1">>

Terminator == <<NL, NL>>
Block(ls) == Join(ls) \o Terminator

PingBlock == Block(<<sPING>>)
RoutingBlock == Block(<<sROUTING, <<"3"," ","7">>, <<"x"," ","1">>, <<"1"," ","0">>>>)
LooseRoutingBlock == Block(<<sROUTING, <<"3"," ">>, <<"3",".","5"," ","7">>, <<"3">>>>)
OtherBlock == Block(<<<<"V",":">>>>)

DeviceBlock ==
    Block(<<sSMART,
            sModel \o <<":"," ","M">>,
            sUniqueID \o <<":"," ">> \o Uid1,
            sInputsAcross \o <<":"," ","2">>,
            sInputsDown \o <<":"," ","1">>>>)
AnonDeviceBlock ==
    Block(<<sSMART,
            sLabel \o <<":"," ","L">>,
            sInputCount \o <<":"," ","x">>,
            <<"Z",":"," ","9">>>>)

\* device blocks of panels of every shape up to MaxColumns x MaxRows
DigitChars == <<"0","1","2","3","4","5","6","7","8","9">>
ShapeBlock(across, down) ==
    Block(<<sSMART,
            sInputsAcross \o <<":"," ", DigitChars[across + 1]>>,
            sInputsDown \o <<":"," ", DigitChars[down + 1]>>>>)
ShapeChunks == {ShapeBlock(a, d) : a \in 1..MaxColumns, d \in 1..MaxRows}

\* sockets of the model, numbered in the order the server accepts them (the
\* number stands for the remote port)
Conns == {1, 2}

\* remote addresses of accepted sockets; <<>> is a socket that cannot
\* report its remote address any more
Addrs == {Addr1, <<>>}

\* what one read of a primary connection may deliver
PrimaryChunks == {RoutingBlock}
MorePrimaryChunks ==
    { PingBlock, RoutingBlock, LooseRoutingBlock, OtherBlock,
      PingBlock \o RoutingBlock,
      sPING \o <<NL>>, <<NL>>,
      Block(<<sROUTING>>) }

\* what one read of a configure connection may deliver
ConfigureChunks == {DeviceBlock, AnonDeviceBlock}
MoreConfigureChunks ==
    { DeviceBlock, AnonDeviceBlock, OtherBlock,
      OtherBlock \o DeviceBlock,
      SubSeq(DeviceBlock, 1, Len(DeviceBlock) - 1), <<NL>> }

\* identities the plugin layer may pass to setBacklight / configureDevice
Ids == {Addr1, Uid1, <<"n","o">>}
\* backlight arguments in tenths (instance.ts passes percent / 10)
BacklightTenths == {-1, 0, 109, 110}
DestinationCounts == {-2, 0, 1, 2, 8, 10}

(***************************************************************************)
(* State.                                                                  *)
(***************************************************************************)
VARIABLES
    isRunning,          \* #isRunning
    listening,          \* the net.Server is listening
    connectionListener, \* the 'connection' listener of createServer is attached
    manualConfigure,    \* #manualConfigureClients
    clients,            \* #clients: the accepted connections registered, in insertion order
    conn,               \* per accepted socket: the closure of #clientConnect and its handshake
    lastCall,           \* the last setBacklight / configureDevice call: what it threw, or
                        \* the payload it wrote to the configure socket of client target
    nReads,             \* reads of primary connections so far (bounded by MaxReads)
    nCalls,             \* calls made so far (bounded by MaxCalls)
    plugin              \* the plugin layer: #connectedSurfaces of VideohubPanelListener
                        \* (its keys, without the 'videohub:' prefix) and the
                        \* VideohubPanelWrapper surfaces opened so far

vars == <<isRunning, listening, connectionListener, manualConfigure, clients, conn,
          lastCall, nReads, nCalls, plugin>>


\* a socket that has not been accepted yet
Free ==
    [st |-> "free", addr |-> <<>>,
     psock |-> "none", plis |-> {}, publicClientId |-> <<>>, dataBuffer |-> <<>>,
     received |-> <<>>, timeouts |-> 0, reads |-> 0,
     wconfigure |-> FALSE, wdeviceInfo |-> EmptyInfo, wpublicClientId |-> <<>>,
     hs |-> "none", csock |-> "none", clis |-> {}, killed |-> FALSE, timer |-> "none",
     cbuf |-> <<>>, log |-> <<>>]

NoCall == [op |-> "none", id |-> <<>>, arg |-> 0, result |-> "none", target |-> 0, payload |-> <<>>]

(***************************************************************************)
(* The plugin layer listening to the server's events.                      *)
(***************************************************************************)
NoPlugin == [connectedSurfaces |-> {}, surfaces |-> {}]

\* openSurface: the host opens the surface announced by 'surfacesAdded'; the
\* wrapper keeps panelInfo.id and listens to 'disconnect'.  c is the
\* connection whose connect event announced it
openSurface(p, c, id) ==
    [p EXCEPT !.surfaces = @ \cup {[c |-> c, id |-> id, st |-> "open"]}]

\* connectPanel, listener of 'connect'.  Its  info.id = id  writes the public
\* identity into the descriptor object the server keeps; the server never
\* reads that field again
connectPanel(p, c, id) ==
    openSurface([p EXCEPT !.connectedSurfaces = @ \cup {id}], c, id)

\* #disconnectHandler of one surface, listener of 'disconnect'
disconnectHandler(surface, clientId) ==
    IF clientId # surface.id THEN surface ELSE [surface EXCEPT !.st = "disconnected"]

\* disconnectPanel, listener of 'disconnect', and the handlers of the surfaces
disconnectPanel(p, id) ==
    [connectedSurfaces |-> p.connectedSurfaces \ {id},
     surfaces |-> {disconnectHandler(surface, id) : surface \in p.surfaces}]

\* the listeners run, in order, for the events connection c emitted
RECURSIVE emit(_, _, _)
emit(p, c, events) ==
    IF events = <<>> THEN p
    ELSE emit(IF events[1].t = "connect" THEN connectPanel(p, c, events[1].id)
              ELSE IF events[1].t = "disconnect" THEN disconnectPanel(p, events[1].id)
              ELSE p,
              c, Tail(events))

\* every event a step appends to a connection's log is delivered in that step
Deliver ==
    LET emitting == {c \in Conns : Len(conn'[c].log) > Len(conn[c].log)}
    IN  plugin' = IF emitting = {} THEN plugin
                  ELSE LET c == CHOOSE c \in emitting : TRUE
                       IN  emit(plugin, c, SubSeq(conn'[c].log, Len(conn[c].log) + 1, Len(conn'[c].log)))

Init ==
    /\ isRunning = FALSE
    /\ listening = FALSE
    /\ connectionListener = TRUE
    /\ manualConfigure \in BOOLEAN
    /\ clients = <<>>
    /\ conn = [c \in Conns |-> Free]
    /\ lastCall = NoCall
    /\ nReads = 0
    /\ nCalls = 0
    /\ plugin = NoPlugin

\* socket.destroy(): the 'close' event is emitted later, from the event loop
Destroy(sock) == IF sock \in {"connecting", "open", "ended"} THEN "destroyed" ELSE sock
\* socket.end()
End(sock) == IF sock = "open" THEN "ended" ELSE sock

Remove(seq, c) == SelectSeq(seq, LAMBDA e : e # c)

(***************************************************************************)
(* start() and destroy().                                                  *)
(***************************************************************************)
start ==
    /\ ~isRunning
    /\ isRunning' = TRUE
    /\ listening' = TRUE
    /\ UNCHANGED <<connectionListener, manualConfigure, clients, conn, lastCall, nReads, nCalls>>
    /\ Deliver

destroy ==
    /\ isRunning
    /\ isRunning' = FALSE
    /\ listening' = FALSE
    /\ conn' = [c \in Conns |->
                  IF \E i \in 1..Len(clients) : clients[i] = c
                  THEN [conn[c] EXCEPT
                          !.psock = Destroy(@),
                          !.csock = IF conn[c].wconfigure THEN Destroy(@) ELSE @]
                  ELSE conn[c]]
    /\ connectionListener' = FALSE
    /\ UNCHANGED <<manualConfigure, clients, lastCall, nReads, nCalls>>
    /\ Deliver

(***************************************************************************)
(* #clientConnect, up to the first await of #connectConfigure.             *)
(***************************************************************************)
\* #connectConfigure before its first await: the socket is created, the
\* debug 'error' listener attached, the hard deadline armed and the four
\* listeners of the connect race attached
\* a handshake that stores its socket in the client as soon as it is created
connectConfigureStart_StoresSocket(r) ==
    [r EXCEPT !.hs = "race", !.csock = "connecting",
              !.clis = {"errorDebug", "connect", "timeout", "close", "error"},
              !.killed = FALSE, !.timer = "pending", !.wconfigure = TRUE]

connectConfigureStart(r) ==
    [r EXCEPT !.hs = "race", !.csock = "connecting",
              !.clis = {"errorDebug", "connect", "timeout", "close", "error"},
              !.killed = FALSE, !.timer = "pending"]

clientConnect(c, remoteAddress) ==
    IF remoteAddress = <<>>
    THEN /\ conn' = [conn EXCEPT ![c] = [Free EXCEPT !.st = "rejected", !.psock = "destroyed"]]
         /\ UNCHANGED clients
    ELSE /\ clients' = Append(clients, c)
         /\ conn' = [conn EXCEPT ![c] =
                connectConfigureStart(
                  [Free EXCEPT !.st = "accepted", !.addr = remoteAddress,
                               !.psock = "open",
                               !.plis = {"timeout", "error", "close", "data"},
                               !.publicClientId = remoteAddress,
                               !.wpublicClientId = remoteAddress,
                               !.log = <<Debug("new client"), Write(generatePrelude)>>])]

\* the listening socket accepts a connection; sockets are numbered in the
\* order they are accepted (the number stands for the remote port)
Accept(c, remoteAddress) ==
    /\ listening
    /\ conn[c].st = "free"
    /\ \A d \in Conns : d < c => conn[d].st # "free"
    /\ IF connectionListener
       THEN clientConnect(c, remoteAddress)
       ELSE /\ conn' = [conn EXCEPT ![c] =
                          [Free EXCEPT !.st = "unhandled", !.addr = remoteAddress,
                                       !.psock = IF remoteAddress = <<>> THEN "closed" ELSE "open"]]
            /\ UNCHANGED clients
    /\ UNCHANGED <<isRunning, listening, connectionListener, manualConfigure, lastCall, nReads, nCalls>>
    /\ Deliver

(***************************************************************************)
(* The primary connection.                                                 *)
(***************************************************************************)
\* a cleanup that reports the remote address and leaves the configure socket
doCleanup_RemoteAddress(c, r, registry) ==
    [conn |-> [r EXCEPT
                 !.plis = @ \ {"data", "close"},
                 !.log = @ \o <<Debug("lost client"), DisconnectEvent(r.addr)>>],
     clients |-> Remove(registry, c)]

\* doCleanup of #clientConnect, on the closure r of connection c and the registry
doCleanup(c, r, registry) ==
    [conn |-> [r EXCEPT
                 !.plis = @ \ {"data", "close"},
                 !.csock = IF r.wconfigure THEN Destroy(@) ELSE @,
                 !.log = @ \o <<Debug("lost client"), DisconnectEvent(r.publicClientId)>>],
     clients |-> Remove(registry, c)]

\* the idle timeout (20000 ms) of a primary socket fires
PrimaryTimeout(c) ==
    /\ conn[c].psock \in {"open", "ended"}
    /\ "timeout" \in conn[c].plis
    /\ conn[c].timeouts < MaxTimeouts
    /\ LET r == [conn[c] EXCEPT !.log = @ \o <<Debug("socket timeout")>>, !.psock = End(@),
                                !.timeouts = @ + 1]
           out == doCleanup(c, r, clients)
       IN  /\ conn' = [conn EXCEPT ![c] = out.conn]
           /\ clients' = out.clients
    /\ UNCHANGED <<isRunning, listening, connectionListener, manualConfigure, lastCall, nReads, nCalls>>
    /\ Deliver

\* a primary socket fails: 'error' is emitted, then 'close', in the same tick
PrimaryError(c) ==
    /\ conn[c].psock \in {"open", "ended"}
    /\ "error" \in conn[c].plis
    /\ LET r == [conn[c] EXCEPT !.log = @ \o <<ErrorEvent("socket error")>>, !.psock = "closed"]
           out == doCleanup(c, r, clients)
       IN  /\ conn' = [conn EXCEPT ![c] = out.conn]
           /\ clients' = out.clients
    /\ UNCHANGED <<isRunning, listening, connectionListener, manualConfigure, lastCall, nReads, nCalls>>
    /\ Deliver

\* 'close' is emitted on a primary socket
onPrimaryClose(c) ==
    LET r == [conn[c] EXCEPT !.psock = "closed"]
        out == doCleanup(c, r, clients)
    IN  IF "close" \in conn[c].plis
        THEN /\ conn' = [conn EXCEPT ![c] = out.conn]
             /\ clients' = out.clients
        ELSE /\ conn' = [conn EXCEPT ![c] = r]
             /\ UNCHANGED clients

\* the panel closes its primary connection
PrimaryPeerClose(c) ==
    /\ conn[c].psock \in {"open", "ended"}
    /\ onPrimaryClose(c)
    /\ UNCHANGED <<isRunning, listening, connectionListener, manualConfigure, lastCall, nReads, nCalls>>
    /\ Deliver

\* the 'close' of a primary socket the server destroyed
PrimaryClosed(c) ==
    /\ conn[c].psock = "destroyed"
    /\ onPrimaryClose(c)
    /\ UNCHANGED <<isRunning, listening, connectionListener, manualConfigure, lastCall, nReads, nCalls>>
    /\ Deliver

\* the 'data' listener of a primary socket
onPrimaryData(r, data) ==
    LET d == PopBlock(r.dataBuffer, data)
    IN  [r EXCEPT !.dataBuffer = d.rest,
                  !.received = @ \o data,
                  !.log = IF d.found /\ Len(d.toProcess) > 0
                          THEN @ \o handleCommands(r.publicClientId, d.toProcess)
                          ELSE @]

PrimaryData(c, data) ==
    /\ nReads < MaxReads
    /\ conn[c].psock = "open"
    /\ "data" \in conn[c].plis
    /\ conn' = [conn EXCEPT ![c] = onPrimaryData(conn[c], data)]
    /\ nReads' = nReads + 1
    /\ UNCHANGED <<isRunning, listening, connectionListener, manualConfigure, clients, lastCall, nCalls>>
    /\ Deliver

(***************************************************************************)
(* The Configure Handshake: #connectConfigure and the handlers             *)
(* #clientConnect chains on its promise.                                   *)
(***************************************************************************)
\* a .then that announces the client before provisioning it
onConfigured_ConnectFirst(r, processedInfo, manual) ==
    LET publicClientId == IF Truthy(processedInfo.id) THEN processedInfo.id.s ELSE r.publicClientId
    IN  [r EXCEPT
           !.wconfigure = TRUE,
           !.wdeviceInfo = processedInfo,
           !.publicClientId = publicClientId,
           !.wpublicClientId = publicClientId,
           !.clis = @ \cup {"coTerminate"},
           !.log = @ \o <<ConnectEvent(publicClientId, processedInfo, r.addr)>>
                     \o (IF ~manual
                         THEN <<ConfigureWrite(generateConfigure(processedInfo.buttonsColumns,
                                                                 processedInfo.buttonsRows, 0))>>
                         ELSE <<>>)]

\* .then of #clientConnect
onConfigured(r, processedInfo, manual) ==
    LET publicClientId == IF Truthy(processedInfo.id) THEN processedInfo.id.s ELSE r.publicClientId
    IN  [r EXCEPT
           !.wconfigure = TRUE,
           !.wdeviceInfo = processedInfo,
           !.publicClientId = publicClientId,
           !.wpublicClientId = publicClientId,
           !.clis = @ \cup {"coTerminate"},
           !.log = @ \o (IF ~manual
                         THEN <<ConfigureWrite(generateConfigure(processedInfo.buttonsColumns,
                                                                 processedInfo.buttonsRows, 0))>>
                         ELSE <<>>)
                     \o <<ConnectEvent(publicClientId, processedInfo, r.addr)>>]

\* .catch of #clientConnect
onConfigureFailed(r) ==
    [r EXCEPT !.psock = Destroy(@), !.log = @ \o <<Debug("configure failed")>>]

\* catch and finally of #connectConfigure, then the .catch
connectConfigureThrow(r) ==
    onConfigureFailed(
        [r EXCEPT !.hs = "failed", !.csock = Destroy(@), !.clis = {},
                  !.timer = IF @ = "pending" THEN "cleared" ELSE @])

\* #connectConfigure once the device-info block is in: parse, return, finally;
\* then the .then
connectConfigureReturn(r, deviceInfo, manual) ==
    onConfigured(
        [r EXCEPT !.hs = "ready",
                  !.timer = IF @ = "pending" THEN "cleared" ELSE @,
                  !.log = @ \o <<Debug("configure info"), Debug("configure ready")>>],
        ParseDeviceInfo(deviceInfo), manual)

\* #connectConfigure resumed after Promise.race
afterRace(r, manual) ==
    IF r.killed
    THEN connectConfigureThrow(r)
    ELSE [r EXCEPT !.hs = "await", !.clis = @ \cup {"data"}, !.cbuf = <<>>,
                   !.log = @ \o <<Debug("configure opened")>>]

\* the listeners of event ev of the configure socket run (a once-listener of
\* the race is detached as it runs), then the continuation of the race if
\* one of them settled it
emitConfigure(r, evs, manual) ==
    LET settled == r.hs = "race" /\ (evs \cap r.clis) \cap {"connect", "timeout", "close", "error"} # {}
        r1 == [r EXCEPT
                 !.clis = @ \ (evs \cap {"connect", "timeout", "close", "error"}),
                 !.log = IF "error" \in evs /\ "errorDebug" \in r.clis
                         THEN @ \o <<Debug("configure error")>> ELSE @,
                 !.psock = IF "close" \in evs /\ "coTerminate" \in r.clis THEN Destroy(@) ELSE @]
    IN  IF settled THEN afterRace(r1, manual) ELSE r1

\* the configure connection is established
ConfigureConnect(c) ==
    /\ conn[c].csock = "connecting"
    /\ conn' = [conn EXCEPT ![c] =
                  emitConfigure([conn[c] EXCEPT !.csock = "open"], {"connect"}, manualConfigure)]
    /\ UNCHANGED <<isRunning, listening, connectionListener, manualConfigure, clients, lastCall, nReads, nCalls>>
    /\ Deliver

\* the configure socket fails (refused, reset): 'error' then 'close', in one tick
ConfigureError(c) ==
    /\ conn[c].csock \in {"connecting", "open"}
    /\ conn' = [conn EXCEPT ![c] =
                  emitConfigure([conn[c] EXCEPT !.csock = "closed"], {"error", "close"}, manualConfigure)]
    /\ UNCHANGED <<isRunning, listening, connectionListener, manualConfigure, clients, lastCall, nReads, nCalls>>
    /\ Deliver

\* the panel closes the configure connection
ConfigurePeerClose(c) ==
    /\ conn[c].csock = "open"
    /\ conn' = [conn EXCEPT ![c] =
                  emitConfigure([conn[c] EXCEPT !.csock = "closed"], {"close"}, manualConfigure)]
    /\ UNCHANGED <<isRunning, listening, connectionListener, manualConfigure, clients, lastCall, nReads, nCalls>>
    /\ Deliver

\* the 'close' of a configure socket the server destroyed
ConfigureClosed(c) ==
    /\ conn[c].csock = "destroyed"
    /\ conn' = [conn EXCEPT ![c] =
                  emitConfigure([conn[c] EXCEPT !.csock = "closed"], {"close"}, manualConfigure)]
    /\ UNCHANGED <<isRunning, listening, connectionListener, manualConfigure, clients, lastCall, nReads, nCalls>>
    /\ Deliver

\* the idle timeout (20000 ms) of the configure socket fires; it was armed
\* before the 5000 ms deadline, which has therefore fired or been cleared
ConfigureTimeout(c) ==
    /\ conn[c].csock \in {"connecting", "open"}
    /\ conn[c].timer # "pending"
    /\ "timeout" \in conn[c].clis
    /\ conn' = [conn EXCEPT ![c] = emitConfigure(conn[c], {"timeout"}, manualConfigure)]
    /\ UNCHANGED <<isRunning, listening, connectionListener, manualConfigure, clients, lastCall, nReads, nCalls>>
    /\ Deliver

\* the callback of the hard deadline (CONFIGURE_TIMEOUT)
onDeadline(r) ==
    [r EXCEPT !.killed = TRUE, !.timer = "fired",
              !.log = @ \o <<Debug("configure timeout")>>,
              !.csock = Destroy(@), !.clis = {}]

Deadline(c) ==
    /\ conn[c].timer = "pending"
    /\ conn' = [conn EXCEPT ![c] = onDeadline(conn[c])]
    /\ UNCHANGED <<isRunning, listening, connectionListener, manualConfigure, clients, lastCall, nReads, nCalls>>
    /\ Deliver

\* the 'data' listener of the handshake
onConfigureData(r, data, manual) ==
    LET d == PopBlock(r.cbuf, data)
        r1 == [r EXCEPT !.cbuf = d.rest, !.reads = @ + 1]
    IN  IF d.found /\ Len(d.toProcess) > 0 /\ d.toProcess[1] = sSMART
        THEN connectConfigureReturn([r1 EXCEPT !.clis = @ \ {"data"}], d.toProcess, manual)
        ELSE r1

ConfigureData(c, data) ==
    /\ conn[c].reads < MaxConfigureReads
    /\ conn[c].csock = "open"
    /\ "data" \in conn[c].clis
    /\ conn' = [conn EXCEPT ![c] = onConfigureData(conn[c], data, manualConfigure)]
    /\ UNCHANGED <<isRunning, listening, connectionListener, manualConfigure, clients, lastCall, nReads, nCalls>>
    /\ Deliver

(***************************************************************************)
(* setBacklight and configureDevice.                                       *)
(***************************************************************************)
\* Object.values(this.#clients).find(...): the first registered client whose
\* remote address or public identity is the given one; 0 if there is none
FindClient(publicClientId) ==
    LET match(i) == \/ conn[clients[i]].addr = publicClientId
                    \/ conn[clients[i]].wpublicClientId = publicClientId
    IN  IF \E i \in 1..Len(clients) : match(i)
        THEN clients[CHOOSE i \in 1..Len(clients) : match(i) /\ \A j \in 1..(i-1) : ~match(j)]
        ELSE 0

\* a setBacklight that refuses the upper boundary
setBacklightOutcome_ExclusiveBound(publicClientId, backlight) ==
    LET client == FindClient(publicClientId)
    IN  IF backlight < 0 \/ backlight >= 10 THEN [result |-> "invalid", target |-> 0]
        ELSE IF client = 0 \/ conn[client].addr = <<>> THEN [result |-> "unknown", target |-> 0]
        ELSE IF ~conn[client].wconfigure THEN [result |-> "unavailable", target |-> 0]
        ELSE [result |-> "ok", target |-> client]

\* a setBacklight that does not look at the configure connection
setBacklightOutcome_NoConfigureCheck(publicClientId, backlight) ==
    LET client == FindClient(publicClientId)
    IN  IF backlight < 0 \/ backlight > 10 THEN [result |-> "invalid", target |-> 0]
        ELSE IF client = 0 \/ conn[client].addr = <<>> THEN [result |-> "unknown", target |-> 0]
        ELSE [result |-> "ok", target |-> client]

\* the outcome of setBacklight: what is thrown, or the client written to
setBacklightOutcome(publicClientId, backlight) ==
    LET client == FindClient(publicClientId)
    IN  IF backlight < 0 \/ backlight > 10 THEN [result |-> "invalid", target |-> 0]
        ELSE IF client = 0 \/ conn[client].addr = <<>> THEN [result |-> "unknown", target |-> 0]
        ELSE IF ~conn[client].wconfigure THEN [result |-> "unavailable", target |-> 0]
        ELSE [result |-> "ok", target |-> client]

\* setBacklight(publicClientId, tenths / 10)
setBacklight(publicClientId, tenths) ==
    /\ nCalls < MaxCalls
    /\ LET backlight == tenths \div 10
           out == setBacklightOutcome(publicClientId, backlight)
       IN  lastCall' = [op |-> "setBacklight", id |-> publicClientId, arg |-> tenths,
                        result |-> out.result, target |-> out.target,
                        payload |-> IF out.result = "ok" THEN SettingsPayload(backlight) ELSE <<>>]
    /\ nCalls' = nCalls + 1
    /\ UNCHANGED <<isRunning, listening, connectionListener, manualConfigure, clients, conn, nReads>>
    /\ Deliver

\* a configureDevice that accepts odd destination counts
configureDeviceOutcome_AllowsOdd(publicClientId, destinationCount) ==
    LET client == FindClient(publicClientId)
    IN  IF destinationCount < 0 \/ destinationCount > 8
        THEN [result |-> "invalid", target |-> 0]
        ELSE IF client = 0 \/ conn[client].addr = <<>> THEN [result |-> "unknown", target |-> 0]
        ELSE IF ~conn[client].wconfigure THEN [result |-> "unavailable", target |-> 0]
        ELSE [result |-> "ok", target |-> client]

\* the outcome of configureDevice
configureDeviceOutcome(publicClientId, destinationCount) ==
    LET client == FindClient(publicClientId)
    IN  IF destinationCount < 0 \/ destinationCount > 8 \/ destinationCount % 2 # 0
        THEN [result |-> "invalid", target |-> 0]
        ELSE IF client = 0 \/ conn[client].addr = <<>> THEN [result |-> "unknown", target |-> 0]
        ELSE IF ~conn[client].wconfigure THEN [result |-> "unavailable", target |-> 0]
        ELSE [result |-> "ok", target |-> client]

\* configureDevice(publicClientId, {destinationCount})
configureDevice(publicClientId, destinationCount) ==
    /\ nCalls < MaxCalls
    /\ LET out == configureDeviceOutcome(publicClientId, destinationCount)
       IN  lastCall' = [op |-> "configureDevice", id |-> publicClientId, arg |-> destinationCount,
                        result |-> out.result, target |-> out.target,
                        payload |-> IF out.result = "ok"
                                    THEN generateConfigure(conn[out.target].wdeviceInfo.buttonsColumns,
                                                           conn[out.target].wdeviceInfo.buttonsRows,
                                                           destinationCount)
                                    ELSE <<>>]
    /\ nCalls' = nCalls + 1
    /\ UNCHANGED <<isRunning, listening, connectionListener, manualConfigure, clients, conn, nReads>>
    /\ Deliver

(***************************************************************************)
(* Specifications.  Spec follows one accepted socket through every event   *)
(* of the server.  HandshakeSpec and DispatchSpec follow one socket with   *)
(* richer reads of its configure and of its primary connection.           *)
(* RegistrySpec follows two sockets sharing the registry, and the calls.   *)
(***************************************************************************)
First == {1}

Next ==
    \/ start
    \/ destroy
    \/ \E c \in First, a \in Addrs : Accept(c, a)
    \/ \E c \in First : PrimaryTimeout(c)
    \/ \E c \in First : PrimaryError(c)
    \/ \E c \in First : PrimaryPeerClose(c)
    \/ \E c \in First : PrimaryClosed(c)
    \/ \E c \in First, d \in PrimaryChunks : PrimaryData(c, d)
    \/ \E c \in First : ConfigureConnect(c)
    \/ \E c \in First : ConfigureError(c)
    \/ \E c \in First : ConfigurePeerClose(c)
    \/ \E c \in First : ConfigureClosed(c)
    \/ \E c \in First : ConfigureTimeout(c)
    \/ \E c \in First : Deadline(c)
    \/ \E c \in First, d \in ConfigureChunks : ConfigureData(c, d)

Spec == Init /\ [][Next]_vars

\* every 'close' the event loop owes for a destroyed socket is delivered
Fairness ==
    \A c \in First : WF_vars(PrimaryClosed(c)) /\ WF_vars(ConfigureClosed(c))

FairSpec == Spec /\ Fairness

HandshakeNext ==
    \/ start
    \/ destroy
    \/ \E c \in First, a \in Addrs : Accept(c, a)
    \/ \E c \in First : PrimaryTimeout(c)
    \/ \E c \in First : PrimaryError(c)
    \/ \E c \in First : PrimaryPeerClose(c)
    \/ \E c \in First : PrimaryClosed(c)
    \/ \E c \in First : ConfigureConnect(c)
    \/ \E c \in First : ConfigureError(c)
    \/ \E c \in First : ConfigurePeerClose(c)
    \/ \E c \in First : ConfigureClosed(c)
    \/ \E c \in First : ConfigureTimeout(c)
    \/ \E c \in First : Deadline(c)
    \/ \E c \in First, d \in MoreConfigureChunks : ConfigureData(c, d)

HandshakeSpec == Init /\ [][HandshakeNext]_vars

DispatchNext ==
    \/ start
    \/ \E c \in First, a \in Addrs : Accept(c, a)
    \/ \E c \in First : PrimaryTimeout(c)
    \/ \E c \in First : PrimaryError(c)
    \/ \E c \in First : PrimaryPeerClose(c)
    \/ \E c \in First : PrimaryClosed(c)
    \/ \E c \in First, d \in MorePrimaryChunks : PrimaryData(c, d)
    \/ \E c \in First : ConfigureConnect(c)
    \/ \E c \in First : ConfigurePeerClose(c)
    \/ \E c \in First, d \in ConfigureChunks : ConfigureData(c, d)

DispatchSpec == Init /\ [][DispatchNext]_vars

\* two sockets and the calls of the plugin layer; the second socket comes
\* from the address of the first or from another one
RegistryNext ==
    \/ start
    \/ \E c \in Conns : \E a \in (IF c = 1 THEN {Addr1} ELSE {Addr1, Addr2}) : Accept(c, a)
    \/ \E c \in Conns : PrimaryPeerClose(c)
    \/ \E c \in Conns : PrimaryClosed(c)
    \/ \E c \in Conns : ConfigureConnect(c)
    \/ \E c \in Conns : ConfigurePeerClose(c)
    \/ \E c \in Conns : ConfigureClosed(c)
    \/ \E c \in Conns, d \in ConfigureChunks : ConfigureData(c, d)
    \/ \E id \in Ids, t \in BacklightTenths : setBacklight(id, t)
    \/ \E id \in Ids, n \in DestinationCounts : configureDevice(id, n)

RegistrySpec == Init /\ [][RegistryNext]_vars

\* two sockets of panels reporting the same Unique ID, and the plugin layer
PluginNext ==
    \/ start
    \/ \E c \in Conns, a \in {Addr1, Addr2} : Accept(c, a)
    \/ \E c \in Conns : PrimaryTimeout(c)
    \/ \E c \in Conns : PrimaryPeerClose(c)
    \/ \E c \in Conns : PrimaryClosed(c)
    \/ \E c \in Conns : ConfigureConnect(c)
    \/ \E c \in Conns : ConfigurePeerClose(c)
    \/ \E c \in Conns : ConfigureClosed(c)
    \/ \E c \in Conns, d \in ConfigureChunks : ConfigureData(c, d)

\* the plugin constructs the server with manualConfigure: true
PluginInit == Init /\ manualConfigure = TRUE

PluginSpec == PluginInit /\ [][PluginNext]_vars

\* one panel of any shape completes its handshake and is reconfigured
LayoutNext ==
    \/ start
    \/ \E c \in First : Accept(c, Addr1)
    \/ \E c \in First : ConfigureConnect(c)
    \/ \E c \in First, d \in ShapeChunks : ConfigureData(c, d)
    \/ \E n \in DestinationCounts : configureDevice(Addr1, n)

LayoutSpec == Init /\ [][LayoutNext]_vars

(***************************************************************************)
(* Properties.                                                             *)
(***************************************************************************)
Registered(c) == \E i \in 1..Len(clients) : clients[i] = c
Entries(c, type) == {i \in 1..Len(conn[c].log) : conn[c].log[i].t = type}
DebugSeen(c, m) == \E i \in Entries(c, "debug") : conn[c].log[i].m = m
Gone(sock) == sock \in {"destroyed", "closed"}

\* C1: when the 5000 ms deadline expires on a handshake that is not Ready,
\* the configure connection is destroyed, the handshake ends Failed, the
\* failure reaches the server ('configure failed'), the primary connection
\* is destroyed and no connect event is emitted.  Stated on the states in
\* which the deadline has fired on a configure socket that had signalled no
\* error, and the 'close' of the destroyed configure socket has been
\* delivered, so that nothing of the handshake is pending.
C1_DeadlineFailsHandshake ==
    \A c \in Conns :
        (conn[c].timer = "fired" /\ conn[c].csock = "closed" /\ ~DebugSeen(c, "configure error"))
        => /\ conn[c].hs = "failed"
           /\ DebugSeen(c, "configure failed")
           /\ Gone(conn[c].psock)
           /\ Entries(c, "connect") = {}

\* C2: when the configure connection has signalled error or close before
\* the device-info block was received (as the first signal of the connect
\* race, or while awaiting device info), the handshake is Failed: the
\* failure is signalled to the server, which destroys the primary
\* connection and emits 'configure failed'; no connect event is emitted.
C2_SignalFailsHandshake ==
    \A c \in Conns :
        (conn[c].csock = "closed" /\ conn[c].hs # "ready" /\ conn[c].timer # "fired")
        => /\ conn[c].hs = "failed"
           /\ DebugSeen(c, "configure failed")
           /\ Gone(conn[c].psock)
           /\ Entries(c, "connect") = {}

\* C3: once the configure connection is established, the handshake is Ready
\* as soon as a complete block whose first line is 'SMART DEVICE:' has been
\* received, whatever precedes it in the same read: while the handshake is
\* still listening for data, no complete device-info block waits in its buffer.
C3_ReadyOnDeviceBlock ==
    \A c \in Conns :
        (conn[c].csock = "open" /\ "data" \in conn[c].clis)
        => \A i \in 1..Len(Blocks(conn[c].cbuf)) : Blocks(conn[c].cbuf)[i][1] # sSMART

\* the blocks handed to #handleCommands on connection c, in order
Dispatched(c) ==
    LET log == conn[c].log
        cmds == SelectSeq(log, LAMBDA e : e.t = "command")
    IN  [i \in 1..Len(cmds) |-> cmds[i].lines]

\* C5: after every read of a primary connection, the blocks handed to the
\* Command Dispatcher are exactly the blocks of the stream received so far
\* (as decoded in one piece), in arrival order, and no complete block is left
\* in the buffer.
C5_ChunkingIndependence ==
    \A c \in Conns :
        "data" \in conn[c].plis
        => /\ Dispatched(c) = Blocks(conn[c].received)
           /\ IndexOfNLNL(conn[c].dataBuffer) = -1

IsPrefix(a, b) == Len(a) <= Len(b) /\ a = SubSeq(b, 1, Len(a))

\* C6: every block the Command Dispatcher processes is acknowledged by
\* exactly one ACK written to the same connection, before any press event
\* of that block and before the next block is processed; blocks are
\* processed in arrival order.
C6_AckFirstInOrder ==
    \A c \in Conns :
        LET log == conn[c].log
        IN  /\ \A i \in Entries(c, "command") :
                 i + 1 <= Len(log) /\ log[i + 1].t = "write" /\ log[i + 1].data = sACK
            /\ Cardinality({i \in Entries(c, "write") : log[i].data = sACK})
                 = Cardinality(Entries(c, "command"))
            /\ \A j \in Entries(c, "press") :
                 \E i \in Entries(c, "command") :
                     i + 1 < j /\ \A k \in (i + 2)..j : log[k].t = "press"
            /\ IsPrefix(Dispatched(c), Blocks(conn[c].received))

\* two blocks were dispatched on one connection, one of them with a press
C6_Witness ==
    \E c \in Conns : Len(Dispatched(c)) = 2 /\ Entries(c, "press") # {}

\* an integer literal, and a line made of two of them
IsInteger(tok) ==
    /\ tok # <<>>
    /\ \/ IsDigits(tok)
       \/ tok[1] = "-" /\ Len(tok) > 1 /\ IsDigits(Tail(tok))
IntegerOf(tok) == IF tok[1] = "-" THEN 0 - DecVal(Tail(tok)) ELSE DecVal(tok)
TwoIntegers(line) ==
    LET parts == Split(line, SP)
    IN  Len(parts) = 2 /\ IsInteger(parts[1]) /\ IsInteger(parts[2])

RECURSIVE IntegerPresses(_, _, _)
IntegerPresses(id, lines, i) ==
    IF i > Len(lines) THEN <<>>
    ELSE (IF TwoIntegers(lines[i])
          THEN <<PressEvent(id, Num(IntegerOf(Split(lines[i], SP)[1])),
                                Num(IntegerOf(Split(lines[i], SP)[2])))>>
          ELSE <<>>)
         \o IntegerPresses(id, lines, i + 1)

\* the press events emitted for the block dispatched at log index i
PressesOf(c, i) ==
    LET log == conn[c].log
        last == IF \E j \in (i + 2)..Len(log) : log[j].t # "press"
                THEN (CHOOSE j \in (i + 2)..Len(log) :
                         log[j].t # "press" /\ \A k \in (i + 2)..(j - 1) : log[k].t = "press") - 1
                ELSE Len(log)
    IN  SubSeq(log, i + 2, last)

\* C7: for a routing block with more than one line the dispatcher emits, in
\* line order, exactly one press event (identity at dispatch time,
\* destination, value) per line made of two integers and none for any other
\* line; for every other block it emits no press event.
C7_PressPerIntegerLine ==
    \A c \in Conns : \A i \in Entries(c, "command") :
        LET e == conn[c].log[i]
        IN  PressesOf(c, i) =
              IF Len(e.lines) > 1 /\ e.lines[1] = sROUTING
              THEN IntegerPresses(e.id, e.lines, 2)
              ELSE <<>>

NonDebug(entries) == SelectSeq(entries, LAMBDA e : e.t # "debug")
Added(c) == SubSeq(conn'[c].log, Len(conn[c].log) + 1, Len(conn'[c].log))

\* C4: the step on which the handshake of an accepted connection succeeds
\* sets the client's configure connection and descriptor, makes its public
\* identity the reported Unique ID (the remote address when none was
\* reported) and emits one connect event carrying that identity, the
\* descriptor and the remote address; without manualConfigure,
\* generateConfigure(columns, rows, 0) is written to the configure connection
\* before that event, with manualConfigure nothing is written; no other step
\* emits a connect event.
C4_HandshakeSuccess ==
    /\ [](\A c \in Conns :
            /\ Cardinality(Entries(c, "connect")) = IF conn[c].hs = "ready" THEN 1 ELSE 0
            /\ Cardinality(Entries(c, "cwrite")) =
                 IF conn[c].hs = "ready" /\ ~manualConfigure THEN 1 ELSE 0)
    /\ [][\A c \in Conns :
            (conn[c].hs # "ready" /\ conn'[c].hs = "ready") =>
               LET info == conn'[c].wdeviceInfo
                   id == IF Truthy(info.id) THEN info.id.s ELSE conn[c].addr
               IN  /\ conn'[c].wconfigure
                   /\ conn'[c].publicClientId = id
                   /\ conn'[c].wpublicClientId = id
                   /\ NonDebug(Added(c)) =
                        (IF manualConfigure THEN <<>>
                         ELSE <<ConfigureWrite(generateConfigure(info.buttonsColumns,
                                                                 info.buttonsRows, 0))>>)
                        \o <<ConnectEvent(id, info, conn[c].addr)>>]_vars

\* a handshake succeeded with a reported Unique ID and provisioned the panel
C4_Witness ==
    \E c \in Conns :
        /\ conn[c].hs = "ready" /\ conn[c].publicClientId = Uid1 /\ ~manualConfigure
        /\ Entries(c, "cwrite") # {} /\ Entries(c, "connect") # {}

\* the primary connection of c closes, fails or times out on this step
PrimaryEnds(c) ==
    \/ conn[c].psock # "closed" /\ conn'[c].psock = "closed"
    \/ conn'[c].timeouts = conn[c].timeouts + 1
    \/ Cardinality(Entries(c, "error")) < Cardinality({i \in 1..Len(conn'[c].log) : conn'[c].log[i].t = "error"})

\* C8: whenever the primary connection of a registered client closes, errors
\* or hits its idle timeout, the client is removed from the registry, its
\* configure connection is destroyed if it has one, and a disconnect event
\* carrying its current public identity is emitted.
C8_CleanupOnPrimaryEnd ==
    [][\A c \in Conns :
         (Registered(c) /\ PrimaryEnds(c)) =>
            /\ \A i \in 1..Len(clients') : clients'[i] # c
            /\ conn[c].wconfigure => Gone(conn'[c].csock)
            /\ NonDebug(Added(c)) # <<>>
            /\ NonDebug(Added(c))[Len(NonDebug(Added(c)))] = DisconnectEvent(conn[c].publicClientId)
            /\ conn[c].publicClientId =
                 IF conn[c].hs = "ready" /\ Truthy(conn[c].wdeviceInfo.id)
                 THEN conn[c].wdeviceInfo.id.s ELSE conn[c].addr]_vars

\* a client that completed its handshake under a Unique ID was cleaned up
C8_Witness ==
    \E c \in Conns :
        /\ conn[c].st = "accepted" /\ ~Registered(c) /\ conn[c].wconfigure
        /\ Gone(conn[c].csock)
        /\ \E i \in Entries(c, "disconnect") : conn[c].log[i].id = Uid1

\* C9: after a successful handshake, whenever the client's configure
\* connection closes the primary connection is destroyed, and eventually the
\* client is out of the registry and a disconnect event with its public
\* identity has been emitted.
C9_CoTermination ==
    /\ [][\A c \in Conns :
            (conn[c].hs = "ready" /\ conn[c].csock # "closed" /\ conn'[c].csock = "closed")
               => Gone(conn'[c].psock)]_vars
    /\ \A c \in Conns :
          (conn[c].hs = "ready" /\ conn[c].csock = "closed")
             ~> (/\ ~Registered(c)
                 /\ \E i \in Entries(c, "disconnect") : conn[c].log[i].id = conn[c].publicClientId)

InRange(call) ==
    \/ call.op = "setBacklight" /\ call.arg >= 0 /\ call.arg < 110
    \/ call.op = "configureDevice" /\ call.arg \in {0, 2, 4, 6, 8}
Matches(id) ==
    {i \in 1..Len(clients) : conn[clients[i]].addr = id \/ conn[clients[i]].publicClientId = id}
Matched(id) == clients[CHOOSE i \in Matches(id) : \A j \in Matches(id) : i <= j]

\* C10: setBacklight and configureDevice called with in-range arguments
\* throw and write nothing when no registered client matches the identity
\* by public identity or remote address, or when the matched client has no
\* configure connection; a client without a configure connection is never
\* written a SETTINGS block or a configure block.
C10_NoConfigureNoWrite ==
    /\ [](\A c \in Conns :
            ~conn[c].wconfigure =>
               /\ Entries(c, "cwrite") = {}
               /\ ~(lastCall.result = "ok" /\ lastCall.target = c))
    /\ [][nCalls' = nCalls + 1 =>
            /\ conn' = conn
            /\ (InRange(lastCall') /\ (Matches(lastCall'.id) = {}
                                        \/ ~conn[Matched(lastCall'.id)].wconfigure))
                 => /\ lastCall'.result \in {"unknown", "unavailable"}
                    /\ lastCall'.payload = <<>>
                    /\ lastCall'.target = 0
            /\ lastCall'.result = "ok"
                 => /\ Matches(lastCall'.id) # {}
                    /\ lastCall'.target = Matched(lastCall'.id)
                    /\ lastCall'.payload # <<>>]_vars

\* an in-range call named a registered client whose handshake had not
\* completed, and was refused
C10_Witness ==
    /\ lastCall.result = "unavailable"
    /\ InRange(lastCall)
    /\ \E i \in 1..Len(clients) :
          conn[clients[i]].addr = lastCall.id /\ ~conn[clients[i]].wconfigure

\* the call made on this step looked up a client that has a configure connection
LooksUpConfigured(id) == Matches(id) # {} /\ conn[Matched(id)].wconfigure

\* C11: setBacklight(publicId, level) reports a validation failure, writes
\* nothing and leaves the registry unchanged whenever floor(level) is
\* outside 0..10, whether or not the client exists; for a registered client
\* with a configure connection and floor(level) in 0..10, boundaries
\* included, it writes one SETTINGS block to that client's configure
\* connection with Backlight and Destination backlight both floor(level).
C11_BacklightValidation ==
    [][(nCalls' = nCalls + 1 /\ lastCall'.op = "setBacklight") =>
          LET level == lastCall'.arg \div 10
          IN  /\ clients' = clients /\ conn' = conn
              /\ (level < 0 \/ level > 10) =>
                    /\ lastCall'.result = "invalid"
                    /\ lastCall'.payload = <<>> /\ lastCall'.target = 0
              /\ (level >= 0 /\ level <= 10 /\ LooksUpConfigured(lastCall'.id)) =>
                    /\ lastCall'.result = "ok"
                    /\ lastCall'.target = Matched(lastCall'.id)
                    /\ lastCall'.payload =
                         <<Header("SETTINGS:"), SettingLine("Backlight:", level),
                           SettingLine("Destination backlight:", level), Blank>>]_vars

\* level 10.9 was given for a client with a configure connection: the block
\* written sets 10
C11_Witness ==
    /\ lastCall.op = "setBacklight" /\ lastCall.arg = 109 /\ lastCall.result = "ok"
    /\ conn[lastCall.target].wconfigure
    /\ lastCall.payload[2] = SettingLine("Backlight:", 10)

\* C12: configureDevice(publicId, destinationCount) fails and writes nothing
\* whenever destinationCount is odd, negative or greater than 8; for a
\* destinationCount in {0, 2, 4, 6, 8} and a registered client with a
\* configure connection it writes generateConfigure(stored columns, stored
\* rows, destinationCount) to that client's configure connection and to no
\* other socket.
C12_DestinationValidation ==
    [][(nCalls' = nCalls + 1 /\ lastCall'.op = "configureDevice") =>
          LET d == lastCall'.arg
          IN  /\ clients' = clients /\ conn' = conn
              /\ (d < 0 \/ d > 8 \/ d % 2 = 1) =>
                    /\ lastCall'.result = "invalid"
                    /\ lastCall'.payload = <<>> /\ lastCall'.target = 0
              /\ (d \in {0, 2, 4, 6, 8} /\ LooksUpConfigured(lastCall'.id)) =>
                    /\ lastCall'.result = "ok"
                    /\ lastCall'.target = Matched(lastCall'.id)
                    /\ lastCall'.payload =
                         generateConfigure(conn[Matched(lastCall'.id)].wdeviceInfo.buttonsColumns,
                                           conn[Matched(lastCall'.id)].wdeviceInfo.buttonsRows, d)]_vars

\* a panel that reported two columns and one row was given two destinations
C12_Witness ==
    /\ lastCall.op = "configureDevice" /\ lastCall.arg = 2 /\ lastCall.result = "ok"
    /\ conn[lastCall.target].wdeviceInfo.buttonsColumns = Num(2)
    /\ lastCall.payload # <<>>

Count(c, type) == Cardinality(Entries(c, type))
CountNext(c, type) == Cardinality({i \in 1..Len(conn'[c].log) : conn'[c].log[i].t = type})

\* C13: destroy() on a running server closes the listening socket and
\* force-closes every connection the server holds for its clients, primary
\* and configure, the configure connection of a handshake in progress
\* included; after destroy the registry becomes empty and no connect event
\* is emitted any more.
C13_DestroyClosesEverything ==
    /\ [][(isRunning /\ ~isRunning') =>
             /\ ~listening'
             /\ \A c \in Conns : Registered(c) =>
                   /\ Gone(conn'[c].psock)
                   /\ conn[c].csock # "none" => Gone(conn'[c].csock)]_vars
    /\ [][~isRunning => \A c \in Conns : CountNext(c, "connect") = Count(c, "connect")]_vars
    /\ (~isRunning) ~> (clients = <<>>)

\* the BUTTON KIND lines of a configure block, and the columns they mark
KindLines(payload) == {payload[k] : k \in {j \in 1..Len(payload) : payload[j].t \in {"Source", "Destination"}}}
DestinationColumns(payload, c) == {e.i % c : e \in {l \in KindLines(payload) : l.t = "Destination"}}
Min(a, b) == IF a < b THEN a ELSE b

\* the configure blocks generated so far for connection c, each with the
\* destination count it was generated for
Generated(c) ==
    {[payload |-> conn[c].log[i].payload, d |-> 0] : i \in Entries(c, "cwrite")}
    \cup (IF lastCall.op = "configureDevice" /\ lastCall.result = "ok" /\ lastCall.target = c
          THEN {[payload |-> lastCall.payload, d |-> lastCall.arg]} ELSE {})

\* the layout of a block generated for cols x rows buttons marks n columns
Layout(g, cols, rows, n) ==
    /\ {e.i : e \in KindLines(g.payload)} = 0..(cols * rows - 1)
    /\ Cardinality(KindLines(g.payload)) = cols * rows
    /\ \A e \in KindLines(g.payload) :
          e.t = (IF g.d > 0 /\ e.i % cols >= cols - g.d \div 2 THEN "Destination" ELSE "Source")
    /\ Cardinality(DestinationColumns(g.payload, cols)) = IF g.d > 0 THEN n ELSE 0

\* C14: generateConfigure(c, r, 0) marks every button index of BUTTON KIND
\* as Source; generateConfigure(c, r, d) with d > 0 marks exactly floor(d/2)
\* columns as Destination, the rightmost ones (x >= c - floor(d/2)), and
\* all other columns as Source, in every row.
C14_ExactlyHalfDColumns ==
    \A c \in Conns : \A g \in Generated(c) :
        Layout(g, conn[c].wdeviceInfo.buttonsColumns.n, conn[c].wdeviceInfo.buttonsRows.n,
               g.d \div 2)

\* C14, amended: the columns marked Destination are those with
\* x >= c - floor(d/2), which are min(c, floor(d/2)) columns: all of them
\* when floor(d/2) exceeds the column count.
C14_RightmostColumns ==
    \A c \in Conns : \A g \in Generated(c) :
        Layout(g, conn[c].wdeviceInfo.buttonsColumns.n, conn[c].wdeviceInfo.buttonsRows.n,
               Min(conn[c].wdeviceInfo.buttonsColumns.n, g.d \div 2))

\* a 3 x 2 panel was given two destinations: column 2 of both rows
C14_Witness ==
    \E c \in Conns : \E g \in Generated(c) :
        /\ g.d = 2
        /\ conn[c].wdeviceInfo.buttonsColumns = Num(3) /\ conn[c].wdeviceInfo.buttonsRows = Num(2)
        /\ {e.i : e \in {l \in KindLines(g.payload) : l.t = "Destination"}} = {2, 5}

\* C15: the Device Info Parser never raises on a 'SMART DEVICE:' block; a
\* line with an unrecognized key sets no descriptor field, and when the
\* value of Input count, Inputs across or Inputs down does not parse as a
\* number the field (buttonsTotal, buttonsColumns, buttonsRows) is left
\* unset rather than given a value.
C15_UnparsedFieldUnset ==
    \A c \in Conns :
        LET info == conn[c].wdeviceInfo
        IN  /\ \A f \in {"buttonsTotal", "buttonsColumns", "buttonsRows"} :
                  info[f] = Undef \/ info[f].k \in {"num", "frac"}
            /\ {info.model, info.name, info.id} \subseteq {Undef, Str(<<"M">>), Str(<<"L">>), Str(Uid1)}

Accepted(c) == conn[c].st = "accepted"

\* C16: no connect event is emitted for a connection after its client has
\* been removed from the registry; a handshake that completes after the
\* primary connection closed, failed or timed out emits no connect event and
\* does not leave its configure connection open.
C16_NoConnectAfterCleanup ==
    /\ [][\A c \in Conns :
            (Accepted(c) /\ ~Registered(c)) => CountNext(c, "connect") = Count(c, "connect")]_vars
    /\ [](\A c \in Conns :
            (Accepted(c) /\ ~Registered(c) /\ conn[c].hs = "ready") => Gone(conn[c].csock))

\* C17: for every accepted primary connection at most one disconnect event
\* is emitted, over every sequence of timeout, error and close events on
\* that connection.
C17_OneDisconnect ==
    \A c \in Conns : Count(c, "disconnect") <= 1

\* C18: when two registered connections carry the same public identity,
\* the loss of the older one does not disconnect the newer one: the surface
\* opened for a connection receives context.disconnect, and its entry
\* leaves the connected-surfaces map, only when that connection itself is
\* lost.
C18_OnlyOwnLossDisconnects ==
    \A surface \in plugin.surfaces :
        (/\ surface.id # conn[surface.c].addr
         /\ surface.st = "disconnected" \/ surface.id \notin plugin.connectedSurfaces)
            => Count(surface.c, "disconnect") > 0

\* C19: for every client the configure connection is absent and the device
\* descriptor empty until the client's handshake has succeeded; the public
\* identity and the descriptor change at most once in the client's
\* lifetime, at handshake completion, and never afterwards.
C19_SetOnceAtCompletion ==
    /\ [](\A c \in Conns :
            (Accepted(c) /\ conn[c].hs # "ready") =>
               /\ ~conn[c].wconfigure
               /\ conn[c].wdeviceInfo = EmptyInfo
               /\ conn[c].publicClientId = conn[c].addr
               /\ conn[c].wpublicClientId = conn[c].addr)
    /\ [][\A c \in Conns :
            (/\ Accepted(c)
             /\ \/ conn'[c].wconfigure # conn[c].wconfigure
                \/ conn'[c].wdeviceInfo # conn[c].wdeviceInfo
                \/ conn'[c].publicClientId # conn[c].publicClientId
                \/ conn'[c].wpublicClientId # conn[c].wpublicClientId)
               => conn[c].hs # "ready" /\ conn'[c].hs = "ready"]_vars
    /\ [][\A c \in Conns : conn[c].hs = "ready" => conn'[c].hs = "ready"]_vars

\* a client that took the Unique ID at handshake completion still has it,
\* and its descriptor, after its connections were lost
C19_Witness ==
    \E c \in Conns :
        /\ conn[c].hs = "ready" /\ conn[c].publicClientId = Uid1
        /\ conn[c].wdeviceInfo.buttonsColumns = Num(2)
        /\ conn[c].psock = "closed" /\ conn[c].csock = "closed"

\* C20: when a Configure Handshake has concluded, in success or in failure,
\* every listener it attached to the configure connection (connect,
\* timeout, close and error of the connect race, and the data listener) has
\* been detached and the hard-deadline timer is cancelled.
C20_ListenersDetached ==
    \A c \in Conns :
        conn[c].hs \in {"ready", "failed"} =>
            /\ conn[c].clis \cap {"connect", "timeout", "close", "error", "data"} = {}
            /\ conn[c].timer # "pending"

\* C21: after start(), destroy(), start() a connection accepted by the
\* listening socket is handled as after the first start: whenever the
\* listening socket accepts a connection that reports its remote address,
\* a client is registered for it, the preamble is written and the configure
\* handshake is launched.
C21_HandledAfterRestart ==
    [][\A c \in Conns :
         (conn[c].st = "free" /\ conn'[c].st # "free" /\ conn'[c].addr # <<>>) =>
            /\ \E i \in 1..Len(clients') : clients'[i] = c
            /\ conn'[c].log = <<Debug("new client"), Write(generatePrelude)>>
            /\ conn'[c].hs = "race" /\ conn'[c].csock = "connecting"]_vars

====
